---- MODULE Spec2Model ----
(***************************************************************************)
(* le-store-redis: the Redis storage strategy for node-letsencrypt.        *)
(*                                                                         *)
(* The plugin created by module.exports.create keeps its data in a Redis   *)
(* database reached through `client`.  Every public operation dispatches   *)
(* backend requests (client.set / client.get) and is completed by the      *)
(* reply handlers of those requests; the model has one action per public   *)
(* operation and one per backend reply.                                    *)
(***************************************************************************)
EXTENDS Integers, Sequences, FiniteSets, TLC

VARIABLES
  redis,        \* the database behind `client`: key -> stored text
  pending,      \* backend requests issued and not yet answered
  call,         \* the public call in progress (or the last one)
  results,      \* async.parallel's results array of the call in progress
  cbCount,      \* how many times the call's callback was invoked
  cbErr,        \* the err argument of the callback
  cbRes,        \* the result argument of the callback
  ncalls,       \* number of public calls issued so far
  nsets,        \* number of set operations among them
  written,      \* keys whose last write is one of the call in progress
  acctByEmail,  \* history: account returned by the last successful accounts.set per email
  kpByEmail,    \* history: keypair returned by the last successful accounts.setKeypair per email
  lastSet,      \* history: the last successful accounts.set
  prevSet,      \* history: the successful accounts.set before lastSet
  setIds,       \* history: <<publicKeyPem, id>> of every successful accounts.set
  used,         \* history: lookup fields some set operation was called with
  certByDomain, \* history: bundle given to the last successful certificates.set per domain
  keypairByDomain, \* history: keypair given to the last certificates.setKeypair per domain
  before,       \* history: the database when the set operation in progress began
  lastFail,     \* history: the failed set operation the caller is still dealing with
  limit         \* how many public calls, and set operations among them, the caller issues

vars == <<redis, pending, call, results, cbCount, cbErr, cbRes, ncalls, nsets, written,
          acctByEmail, kpByEmail, lastSet, prevSet, setIds, used, certByDomain,
          keypairByDomain, before, lastFail, limit>>

hist == <<acctByEmail, kpByEmail, lastSet, prevSet, setIds, used, certByDomain,
          keypairByDomain, before, lastFail>>

(***************************************************************************)
(* Bounds and input domains                                                *)
(***************************************************************************)
MaxCalls == 3              \* public calls in a behaviour
MaxSetCalls == 2           \* set operations among them
RetryCalls == 4            \* public calls of a caller that retries a failed accounts.set
RetrySetCalls == 3         \* set operations among them

Undefined == "undefined"     \* the JavaScript value undefined (an absent property)
JsTrue == "true"             \* the JavaScript boolean true
JsFalse == "false"           \* the JavaScript boolean false

Emails == {"goodguy@gmail.com", "john.doe@gmail.com"}
PublicKeys == {"PUBKEY.PEM", "PUBPEM2"}
Domains == {"example.com", "www.example.com", "foo.com"}

\* JavaScript truthiness of a scalar
Truthy(v) == v \notin {Undefined, JsFalse, "", "null"}

\* a || b
JsOr(a, b) == IF Truthy(a) THEN a ELSE b

\* Property read o.f : undefined when o has no own property f
Prop(o, f) == IF f \in DOMAIN o THEN o[f] ELSE Undefined

\* the null result and an object result of a callback
NullV == [kind |-> "null"]
Obj(o) == [kind |-> "obj", val |-> o]
NoRes == [kind |-> "none"]

(***************************************************************************)
(* crypto.createHash('sha256').update(s).digest('hex'): a digest is a      *)
(* string that differs from its input and from every key prefix; distinct  *)
(* inputs give distinct digests (collisions of SHA-256 are not modelled).  *)
(***************************************************************************)
Sha256Hex(s) == "sha256(" \o s \o ")"

(***************************************************************************)
(* Keys of the database                                                    *)
(***************************************************************************)
emailKeypairIndex(email) == "keypair-email-" \o Sha256Hex(email)

accountKeypairIndex(accountId) == "keypair-account-" \o Sha256Hex(accountId)

emailAccountIndex(email) == "account-email-" \o Sha256Hex(email)

accountIndex(accountId) == "account-" \o Sha256Hex(accountId)

\* var accountId = 'account-' + sha256(reg.keypair.publicKeyPem)
DerivedAccountId(publicKeyPem) == "account-" \o Sha256Hex(publicKeyPem)

(***************************************************************************)
(* JSON.  An object is a function from its own property names to values;   *)
(* keypair is the one property holding a nested object.  JSON.stringify    *)
(* leaves out every property whose value is undefined, so the text holds   *)
(* the defined properties only, and JSON.parse gives back what the text    *)
(* holds.                                                                  *)
(***************************************************************************)
ObjectProps == {"keypair"}

DefinedProps(o) == {f \in DOMAIN o : f \in ObjectProps \/ o[f] # Undefined}

StringifyFlat(o) == [f \in {g \in DOMAIN o : o[g] # Undefined} |-> o[f]]

JSONstringify(o) ==
  [json |-> [f \in DefinedProps(o) |->
               IF f \in ObjectProps THEN StringifyFlat(o[f]) ELSE o[f]]]

JSONparse(text) == text.json

\* a stored string that is no JSON text: JSON.parse(text) throws a SyntaxError
NotJson == [raw |-> "not json"]

\* JSON.parse(text) returns (does not throw)
IsJson(text) == "json" \in DOMAIN text

\* an exception thrown inside the reply handler of client.get: it leaves the
\* handler, and the callback is never invoked
Uncaught == "uncaught SyntaxError"

\* a reply of the backend: null, or a string
StrV(text) == [kind |-> "str", val |-> text]

\* client.get(key): the stored string, or null when the key does not exist
RedisGet(db, key) == IF key \in DOMAIN db THEN StrV(db[key]) ELSE NullV

\* mutant: a write that leaves an existing key alone (SET ... NX)
RedisSet_ifAbsent(db, key, value) ==
  [k \in DOMAIN db \cup {key} |-> IF k \in DOMAIN db THEN db[k] ELSE value]

\* client.set(key, value)
RedisSet(db, key, value) ==
  [k \in DOMAIN db \cup {key} |-> IF k = key THEN value ELSE db[k]]

\* the time to live of a key, as TTL reports it: every write of the plugin
\* is a plain SET, which leaves the key without an expiry (-1)
KeyExpiry(db, key) == -1

\* certExpiry when the caller configured none: 100 days, in seconds
DefaultCertExpiry == 8640000

\* mutant: the stored text is handed to the callback unparsed
deserializeJson_noParse(err, result) ==
  IF err # "none" THEN [err |-> err, res |-> NoRes]
  ELSE IF result.kind = "str"
       THEN [err |-> "none", res |-> Obj(result.val)]
       ELSE [err |-> err, res |-> result]

\* mutant: a missing key is reported as an error
deserializeJson_nullIsError(err, result) ==
  IF err # "none" THEN [err |-> err, res |-> NoRes]
  ELSE IF result.kind = "str"
       THEN [err |-> "none", res |-> Obj(JSONparse(result.val))]
       ELSE [err |-> "NotFound", res |-> NoRes]

\* mutant: a failed read is reported as a missing key
deserializeJson_swallowError(err, result) ==
  IF result.kind = "str"
  THEN [err |-> "none", res |-> Obj(JSONparse(result.val))]
  ELSE [err |-> "none", res |-> result]

\* deserializeJson(callback)(err, result): the arguments callback receives
deserializeJson(err, result) ==
  IF err # "none" THEN [err |-> err, res |-> NoRes]
  ELSE IF result.kind = "str"
       THEN IF IsJson(result.val)
            THEN [err |-> "none", res |-> Obj(JSONparse(result.val))]
            ELSE [err |-> Uncaught, res |-> NoRes]
       ELSE [err |-> err, res |-> result]

(***************************************************************************)
(* Inputs of the public operations                                         *)
(***************************************************************************)
NoDomains == [given |-> FALSE, list |-> <<>>]
DomainList(l) == [given |-> TRUE, list |-> l]

\* the caller-supplied identities: none, the bogus ones of the test suite,
\* and the id an earlier accounts.set returned
CallerIds ==
  { [accountId |-> Undefined, id |-> Undefined],
    [accountId |-> "_account_id", id |-> "__account_id"],
    [accountId |-> DerivedAccountId("PUBKEY.PEM"), id |-> Undefined] }

LookupAccountIds == {Undefined, "_account_id", DerivedAccountId("PUBKEY.PEM")}

Options(email, ident, agreeTos, domains) ==
  [email |-> email, accountId |-> ident.accountId, id |-> ident.id,
   agreeTos |-> agreeTos, domains |-> domains]

NoIdent == [accountId |-> Undefined, id |-> Undefined]
NoOptions == Options(Undefined, NoIdent, Undefined, NoDomains)

Keypairs ==
  { [publicKeyPem |-> "PUBKEY.PEM", privateKeyPem |-> "PRIVKEY.PEM"],
    [publicKeyPem |-> "PUBPEM2", privateKeyPem |-> "PEM2"] }

\* a registration: keypair and receipt, and optionally agreeTos and an
\* arbitrary extra property (rnd)
Registration(keypair, agreeTos, rnd) ==
  [f \in {"keypair", "receipt"}
        \cup (IF agreeTos = Undefined THEN {} ELSE {"agreeTos"})
        \cup (IF rnd = Undefined THEN {} ELSE {"rnd"}) |->
     CASE f = "keypair" -> keypair
       [] f = "receipt" -> "{}"
       [] f = "agreeTos" -> agreeTos
       [] f = "rnd" -> rnd]

\* a registration that carries an email of its own
WithEmail(reg, email) ==
  [f \in DOMAIN reg \cup {"email"} |-> IF f = "email" THEN email ELSE reg[f]]

\* the registrations of the test suite (agreeTos: true with the first
\* keypair, an arbitrary extra key with the second), and the first keypair
\* registered with other properties, an email of its own among them
Registrations ==
  { Registration(CHOOSE k \in Keypairs : k.publicKeyPem = v[1], v[2], v[3]) :
      v \in { <<"PUBKEY.PEM", JsTrue, Undefined>>,
              <<"PUBPEM2", Undefined, "RND">> } }
  \cup { WithEmail(Registration(CHOOSE k \in Keypairs : k.publicKeyPem = "PUBKEY.PEM",
                                Undefined, "RND"),
                   "john.doe@gmail.com") }

NoArg == [none |-> TRUE]
NoCall == [op |-> "none", options |-> NoOptions, arg |-> NoArg, quiet |-> TRUE]
NoSet == [n |-> 0]
NoFail == [n |-> 0]
NoStore == [k \in {} |-> "text"]

(***************************************************************************)
(* redisSetAccount: the account object built from options and reg          *)
(***************************************************************************)
\* mutant: the id the caller supplied is kept when there is one
BuildAccount_callerId(options, reg) ==
  LET accountId == JsOr(options.accountId, DerivedAccountId(reg.keypair.publicKeyPem))
  IN [f \in DOMAIN reg \cup {"id", "accountId", "email", "agreeTos"} |->
        CASE f = "id" -> accountId
          [] f = "accountId" -> accountId
          [] f = "email" -> options.email
          [] f = "agreeTos" -> JsOr(options.agreeTos, Prop(reg, "agreeTos"))
          [] OTHER -> reg[f]]

BuildAccount(options, reg) ==
  LET accountId == DerivedAccountId(reg.keypair.publicKeyPem)
  IN [f \in DOMAIN reg \cup {"id", "accountId", "email", "agreeTos"} |->
        CASE f = "id" -> accountId
          [] f = "accountId" -> accountId
          [] f = "email" -> options.email
          [] f = "agreeTos" -> JsOr(options.agreeTos, Prop(reg, "agreeTos"))
          [] OTHER -> reg[f]]

(***************************************************************************)
(* Backend requests and async.parallel                                     *)
(***************************************************************************)
Pending == "pending"      \* a task of async.parallel that has not called back
NullReply == "null"       \* a task result of null
Failed == "failed"        \* a task that called back with an error

NoText == [json |-> [f \in {} |-> Undefined]]

SetRequest(key, text, slot) ==
  [cmd |-> "set", key |-> key, val |-> text, slot |-> slot, orphan |-> FALSE]

GetRequest(key) ==
  [cmd |-> "get", key |-> key, val |-> NoText, slot |-> 0, orphan |-> FALSE]

\* the requests the two tasks of a set operation issue: task 1 when cond1,
\* task 2 when cond2
ParallelRequests(cond1, key1, cond2, key2, text) ==
  (IF cond1 THEN {SetRequest(key1, text, 1)} ELSE {})
    \cup (IF cond2 THEN {SetRequest(key2, text, 2)} ELSE {})

\* the results array after the tasks were started: a task that issues no
\* request calls back at once with a non-null value
ParallelStart(cond1, cond2, value) ==
  [i \in 1..2 |-> IF (i = 1 /\ cond1) \/ (i = 2 /\ cond2) THEN Pending ELSE value]

\* the value a set operation hands to its callback on success
CallValue(c) ==
  IF c.op = "accounts.set" THEN BuildAccount(c.options, c.arg) ELSE c.arg

\* history: a write to key invalidates what was recorded for the lookups reading it
AcctAfterWrite(m, key) ==
  [e \in Emails |-> IF emailAccountIndex(e) = key THEN NoRes ELSE m[e]]

KpAfterWrite(m, key) ==
  [e \in Emails |-> IF emailKeypairIndex(e) = key THEN NoRes ELSE m[e]]

\* history after the callback of c reported success
RecordSuccess(c, n, db, wr, A, K) ==
  LET e == c.options.email
      v == CallValue(c)
  IN /\ acctByEmail' = IF c.op = "accounts.set" /\ Truthy(e)
                             /\ emailAccountIndex(e) \in wr
                        THEN [A EXCEPT ![e] = Obj(v)] ELSE A
     /\ kpByEmail' = IF c.op = "accounts.setKeypair" /\ Truthy(e)
                           /\ emailKeypairIndex(e) \in wr
                      THEN [K EXCEPT ![e] = Obj(v)] ELSE K
     /\ IF c.op = "accounts.set"
        THEN /\ lastSet' = [n |-> n, options |-> c.options, reg |-> c.arg,
                            account |-> v, keys |-> DOMAIN db, written |-> wr,
                            quiet |-> c.quiet]
             /\ prevSet' = lastSet
             /\ setIds' = setIds \cup {<<c.arg.keypair.publicKeyPem, v["id"]>>}
        ELSE UNCHANGED <<lastSet, prevSet, setIds>>

\* the final function(err, results) of async.parallel when no task failed:
\*   if(results[0] !== null && results[1] !== null) callback(null, value)
ParallelFinal(c, n, rs, db, wr, A, K) ==
  IF rs[1] # NullReply /\ rs[2] # NullReply
  THEN /\ cbCount' = 1
       /\ cbErr' = "none"
       /\ cbRes' = Obj(CallValue(c))
       /\ RecordSuccess(c, n, db, wr, A, K)
       /\ before' = NoStore
  ELSE /\ cbCount' = 0
       /\ cbErr' = "none"
       /\ cbRes' = NoRes
       /\ acctByEmail' = A
       /\ kpByEmail' = K
       /\ UNCHANGED <<lastSet, prevSet, setIds, before>>

\* history: a failed set operation is remembered as long as the calls that
\* follow it carry its options (the retry, and the check after it)
FailAfterCall(c) ==
  IF lastFail.n > 0 /\ c.options = lastFail.options THEN lastFail ELSE NoFail

\* a set operation starts: its tasks are run, and the final function too
\* when no task had to wait for the backend
ParallelBegin(c, cond1, key1, cond2, key2, text, value) ==
  LET rs == ParallelStart(cond1, cond2, value)
  IN /\ call' = c
     /\ ncalls' = ncalls + 1
     /\ UNCHANGED limit
     /\ nsets' = nsets + 1
     /\ written' = {}
     /\ results' = rs
     /\ pending' = pending \cup ParallelRequests(cond1, key1, cond2, key2, text)
     /\ lastFail' = FailAfterCall(c)
     /\ UNCHANGED redis
     /\ IF cond1 \/ cond2
        THEN /\ cbCount' = 0
             /\ cbErr' = "none"
             /\ cbRes' = NoRes
             /\ before' = redis
             /\ UNCHANGED <<acctByEmail, kpByEmail, lastSet, prevSet, setIds>>
        ELSE ParallelFinal(c, ncalls + 1, rs, redis, {}, acctByEmail, kpByEmail)

\* a public call; quiet: no request of an earlier call is still in flight
Call(op, options, arg) ==
  [op |-> op, options |-> options, arg |-> arg, quiet |-> pending = {}]

\* the caller issues one call at a time: the next one after the callback of
\* the last one (requests of a failed call may still be in flight then)
CanCall == ncalls < limit.calls /\ (call.op = "none" \/ cbCount > 0)

CanSet == CanCall /\ nsets < limit.sets

\* mutant: a lookup without a lookup field answers null instead of an error
LookupBegin_nullWhenInvalid(c, key, valid) ==
  /\ call' = c
  /\ ncalls' = ncalls + 1
  /\ UNCHANGED limit
  /\ written' = {}
  /\ results' = [i \in 1..2 |-> Pending]
  /\ pending' = IF valid THEN pending \cup {GetRequest(key)} ELSE pending
  /\ cbCount' = IF valid THEN 0 ELSE 1
  /\ cbErr' = "none"
  /\ cbRes' = IF valid THEN NoRes ELSE NullV
  /\ lastFail' = FailAfterCall(c)
  /\ UNCHANGED <<redis, nsets, acctByEmail, kpByEmail, lastSet, prevSet, setIds, used,
                 certByDomain, keypairByDomain, before>>

\* a lookup operation starts with one read, or fails at once
LookupBegin(c, key, valid) ==
  /\ call' = c
  /\ ncalls' = ncalls + 1
  /\ UNCHANGED limit
  /\ written' = {}
  /\ results' = [i \in 1..2 |-> Pending]
  /\ pending' = IF valid THEN pending \cup {GetRequest(key)} ELSE pending
  /\ cbCount' = IF valid THEN 0 ELSE 1
  /\ cbErr' = IF valid THEN "none" ELSE "InvalidArgument"
  /\ cbRes' = NoRes
  /\ lastFail' = FailAfterCall(c)
  /\ UNCHANGED <<redis, nsets, acctByEmail, kpByEmail, lastSet, prevSet, setIds, used,
                 certByDomain, keypairByDomain, before>>

(***************************************************************************)
(* The account operations                                                  *)
(***************************************************************************)
redisSetAccountKeypair(options, keypair) ==
  /\ CanSet
  /\ ParallelBegin(Call("accounts.setKeypair", options, keypair),
                   Truthy(options.email), emailKeypairIndex(options.email),
                   Truthy(options.accountId), accountKeypairIndex(options.accountId),
                   JSONstringify(keypair), "keypair")
  /\ used' = [used EXCEPT !.kpEmail = @ \cup ({options.email} \ {Undefined}),
                          !.kpAccountId = @ \cup ({options.accountId} \ {Undefined})]
  /\ UNCHANGED <<certByDomain, keypairByDomain>>

\* mutant: the accountId is tried before the email
redisCheckAccountKeypair_accountIdFirst(options) ==
  /\ CanCall
  /\ LookupBegin(Call("accounts.checkKeypair", options, NoArg),
                 IF Truthy(options.accountId)
                 THEN accountKeypairIndex(options.accountId)
                 ELSE emailKeypairIndex(options.email),
                 Truthy(options.email) \/ Truthy(options.accountId))

redisCheckAccountKeypair(options) ==
  /\ CanCall
  /\ LookupBegin(Call("accounts.checkKeypair", options, NoArg),
                 IF Truthy(options.email)
                 THEN emailKeypairIndex(options.email)
                 ELSE accountKeypairIndex(options.accountId),
                 Truthy(options.email) \/ Truthy(options.accountId))

\* client.get(options.domains, ...): the array is the argument list of GET
DomainsKey(domains) == domains.list[1]

redisCheckAccount(options) ==
  /\ CanCall
  /\ LookupBegin(Call("accounts.check", options, NoArg),
                 IF Truthy(options.email)
                 THEN emailAccountIndex(options.email)
                 ELSE IF Truthy(options.accountId)
                      THEN options.accountId
                      ELSE DomainsKey(options.domains),
                 Truthy(options.email) \/ Truthy(options.accountId)
                   \/ options.domains.given)

\* mutant: reg is serialized instead of the account built from it
redisSetAccount_stringifyReg(options, reg) ==
  /\ CanSet
  /\ ParallelBegin(Call("accounts.set", options, reg),
                   Truthy(options.email), emailAccountIndex(options.email),
                   Truthy(options.accountId), accountIndex(options.accountId),
                   JSONstringify(reg), "NOP")
  /\ used' = [used EXCEPT !.acctEmail = @ \cup ({options.email} \ {Undefined}),
                          !.acctId = @ \cup ({options.accountId} \ {Undefined})
                                       \cup {DerivedAccountId(reg.keypair.publicKeyPem)}]
  /\ UNCHANGED <<certByDomain, keypairByDomain>>

redisSetAccount(options, reg) ==
  /\ CanSet
  /\ ParallelBegin(Call("accounts.set", options, reg),
                   Truthy(options.email), emailAccountIndex(options.email),
                   Truthy(options.accountId), accountIndex(options.accountId),
                   JSONstringify(BuildAccount(options, reg)), "NOP")
  /\ used' = [used EXCEPT !.acctEmail = @ \cup ({options.email} \ {Undefined}),
                          !.acctId = @ \cup ({options.accountId} \ {Undefined})
                                       \cup {DerivedAccountId(reg.keypair.publicKeyPem)}]
  /\ UNCHANGED <<certByDomain, keypairByDomain>>

(***************************************************************************)
(* The replies of the backend                                              *)
(***************************************************************************)
\* client.set succeeded: the key is written and the task calls back
SetReplyOk(r) ==
  /\ r \in pending /\ r.cmd = "set"
  /\ LET db == RedisSet(redis, r.key, r.val)
         A == AcctAfterWrite(acctByEmail, r.key)
         K == KpAfterWrite(kpByEmail, r.key)
         rs == [results EXCEPT ![r.slot] = "OK"]
         wr == written \cup {r.key}
     IN /\ redis' = db
        /\ pending' = pending \ {r}
        /\ IF r.orphan
           THEN /\ acctByEmail' = A
                /\ kpByEmail' = K
                /\ written' = written \ {r.key}
                /\ UNCHANGED <<results, cbCount, cbErr, cbRes,
                               lastSet, prevSet, setIds, before>>
           ELSE /\ results' = rs
                /\ written' = wr
                /\ IF \A i \in 1..2 : rs[i] # Pending
                   THEN ParallelFinal(call, ncalls, rs, db, wr, A, K)
                   ELSE /\ acctByEmail' = A
                        /\ kpByEmail' = K
                        /\ UNCHANGED <<cbCount, cbErr, cbRes, lastSet, prevSet, setIds,
                                       before>>
  /\ UNCHANGED <<call, ncalls, nsets, used, certByDomain, keypairByDomain, lastFail, limit>>

\* mutant: a failed write undoes the writes of the operation that succeeded
SetReplyError_rollback(r) ==
  /\ r \in pending /\ r.cmd = "set"
  /\ IF r.orphan
     THEN /\ pending' = pending \ {r}
          /\ UNCHANGED <<redis, results, cbCount, cbErr, cbRes, lastFail, before>>
     ELSE /\ pending' = {[q EXCEPT !.orphan = TRUE] : q \in pending \ {r}}
          /\ redis' = [k \in DOMAIN redis \ written |-> redis[k]]
          /\ lastFail' = [n |-> ncalls, op |-> call.op, options |-> call.options,
                           arg |-> call.arg, quiet |-> call.quiet,
                           before |-> before, written |-> written]
          /\ before' = NoStore
          /\ results' = [results EXCEPT ![r.slot] = Failed]
          /\ cbCount' = cbCount + 1
          /\ cbErr' = "BackendIO"
          /\ cbRes' = NoRes
  /\ UNCHANGED <<call, ncalls, nsets, written, acctByEmail, kpByEmail, lastSet,
                 prevSet, setIds, used, certByDomain, keypairByDomain, limit>>

\* client.set failed: async.parallel calls the final function with the
\* error at once; what the other task does later is ignored
SetReplyError(r) ==
  /\ r \in pending /\ r.cmd = "set"
  /\ IF r.orphan
     THEN /\ pending' = pending \ {r}
          /\ UNCHANGED <<results, cbCount, cbErr, cbRes, lastFail, before>>
     ELSE /\ pending' = {[q EXCEPT !.orphan = TRUE] : q \in pending \ {r}}
          /\ lastFail' = [n |-> ncalls, op |-> call.op, options |-> call.options,
                           arg |-> call.arg, quiet |-> call.quiet,
                           before |-> before, written |-> written]
          /\ before' = NoStore
          /\ results' = [results EXCEPT ![r.slot] = Failed]
          /\ cbCount' = cbCount + 1
          /\ cbErr' = "BackendIO"
          /\ cbRes' = NoRes
  /\ UNCHANGED <<redis, call, ncalls, nsets, written, acctByEmail, kpByEmail, lastSet,
                 prevSet, setIds, used, certByDomain, keypairByDomain, limit>>

\* client.set called back with (null, null), the reply of a SET that stored
\* nothing: the task's result is null, and the final function, once every
\* task has called back, invokes no callback
SetReplyNull(r) ==
  /\ r \in pending /\ r.cmd = "set"
  /\ pending' = pending \ {r}
  /\ IF r.orphan
     THEN UNCHANGED <<results, cbCount, cbErr, cbRes, hist>>
     ELSE LET rs == [results EXCEPT ![r.slot] = NullReply]
          IN /\ results' = rs
             /\ UNCHANGED <<used, certByDomain, keypairByDomain, lastFail>>
             /\ IF \A i \in 1..2 : rs[i] # Pending
                THEN ParallelFinal(call, ncalls, rs, redis, written, acctByEmail, kpByEmail)
                ELSE UNCHANGED <<cbCount, cbErr, cbRes, acctByEmail, kpByEmail,
                                 lastSet, prevSet, setIds, before>>
  /\ UNCHANGED <<redis, call, ncalls, nsets, written, limit>>

\* mutant: the read takes the value out of the store (GETDEL)
GetReplyOk_getdel(r) ==
  /\ r \in pending /\ r.cmd = "get"
  /\ LET out == deserializeJson("none", RedisGet(redis, r.key))
     IN IF out.err = Uncaught
        THEN UNCHANGED <<cbCount, cbErr, cbRes>>
        ELSE /\ cbCount' = cbCount + 1
             /\ cbErr' = out.err
             /\ cbRes' = out.res
  /\ pending' = pending \ {r}
  /\ redis' = [k \in DOMAIN redis \ {r.key} |-> redis[k]]
  /\ UNCHANGED <<call, ncalls, nsets, results, written, hist, limit>>

\* client.get answered: deserializeJson(callback) runs
GetReplyOk(r) ==
  /\ r \in pending /\ r.cmd = "get"
  /\ LET out == deserializeJson("none", RedisGet(redis, r.key))
     IN IF out.err = Uncaught
        THEN UNCHANGED <<cbCount, cbErr, cbRes>>
        ELSE /\ cbCount' = cbCount + 1
             /\ cbErr' = out.err
             /\ cbRes' = out.res
  /\ pending' = pending \ {r}
  /\ UNCHANGED <<redis, call, ncalls, nsets, results, written, hist, limit>>

GetReplyError(r) ==
  /\ r \in pending /\ r.cmd = "get"
  /\ LET out == deserializeJson("BackendIO", NullV)
     IN /\ cbCount' = cbCount + 1
        /\ cbErr' = out.err
        /\ cbRes' = out.res
  /\ pending' = pending \ {r}
  /\ UNCHANGED <<redis, call, ncalls, nsets, results, written, hist, limit>>

(***************************************************************************)
(* The certificate operations: each calls back at once                     *)
(***************************************************************************)
Immediate(c, res) ==
  /\ call' = c
  /\ ncalls' = ncalls + 1
  /\ UNCHANGED limit
  /\ written' = {}
  /\ results' = [i \in 1..2 |-> Pending]
  /\ cbCount' = 1
  /\ cbErr' = "none"
  /\ cbRes' = res
  /\ lastFail' = FailAfterCall(c)
  /\ UNCHANGED <<redis, pending, acctByEmail, kpByEmail, lastSet, prevSet, setIds, before>>

Pems ==
  { [cert |-> "CERT_A.PEM", privkey |-> "PRIVKEY_A.PEM", chain |-> "CHAIN_A.PEM"],
    [cert |-> "CERT_B.PEM", privkey |-> "PRIVKEY_B.PEM", chain |-> "CHAIN_B.PEM"] }

Range(q) == {q[i] : i \in DOMAIN q}

redisSetCertificateKeypair(options, keypair) ==
  /\ CanSet
  /\ nsets' = nsets + 1
  /\ Immediate(Call("certificates.setKeypair", options, keypair),
               Obj(keypair))
  /\ used' = [used EXCEPT !.kpDomain = @ \cup Range(options.domains.list)]
  /\ keypairByDomain' = [d \in Domains |->
                           IF d \in Range(options.domains.list) THEN Obj(keypair)
                           ELSE keypairByDomain[d]]
  /\ UNCHANGED certByDomain

redisCheckCertificateKeypair(options) ==
  /\ CanCall
  /\ Immediate(Call("certificates.checkKeypair", options, NoArg),
               Obj([privateKeyPem |-> "...", privateKeyJwk |-> "{}"]))
  /\ UNCHANGED <<nsets, used, certByDomain, keypairByDomain>>

redisCheckCertificate(options) ==
  /\ CanCall
  /\ Immediate(Call("certificates.check", options, NoArg),
               Obj([privkey |-> "PEM", cert |-> "PEM", chain |-> "PEM",
                    domains |-> <<>>, accountId |-> "..."]))
  /\ UNCHANGED <<nsets, used, certByDomain, keypairByDomain>>

redisSetCertificate(options, pems) ==
  /\ CanSet
  /\ nsets' = nsets + 1
  /\ Immediate(Call("certificates.set", options, pems),
               Obj(pems))
  /\ used' = [used EXCEPT !.certDomain = @ \cup Range(options.domains.list),
                          !.certEmail = @ \cup ({options.email} \ {Undefined}),
                          !.certAccountId = @ \cup ({options.accountId} \ {Undefined})]
  /\ certByDomain' = [d \in Domains |->
                        IF d \in Range(options.domains.list) THEN Obj(pems)
                        ELSE certByDomain[d]]
  /\ UNCHANGED keypairByDomain

(***************************************************************************)
(* The plugin after create(options), and its behaviours                    *)
(***************************************************************************)
CreatedOn(db, l) ==
  /\ limit = l
  /\ redis = db
  /\ pending = {}
  /\ call = NoCall
  /\ results = [i \in 1..2 |-> Pending]
  /\ cbCount = 0
  /\ cbErr = "none"
  /\ cbRes = NoRes
  /\ ncalls = 0
  /\ nsets = 0
  /\ written = {}
  /\ acctByEmail = [e \in Emails |-> NoRes]
  /\ kpByEmail = [e \in Emails |-> NoRes]
  /\ lastSet = NoSet
  /\ prevSet = NoSet
  /\ setIds = {}
  /\ used = [kpEmail |-> {}, kpAccountId |-> {}, acctEmail |-> {}, acctId |-> {},
             kpDomain |-> {}, certDomain |-> {}, certEmail |-> {}, certAccountId |-> {}]
  /\ certByDomain = [d \in Domains |-> NoRes]
  /\ keypairByDomain = [d \in Domains |-> NoRes]
  /\ before = NoStore
  /\ lastFail = NoFail

Created(l) == CreatedOn(NoStore, l)

Init == Created([calls |-> MaxCalls, sets |-> MaxSetCalls])

\* the options of accounts.set: the bogus identities come with
\* agreeTos: 'TOS_URL', as in the test suite
AccountOptions ==
  { Options(e, i, IF i.id = Undefined THEN Undefined ELSE "TOS_URL", NoDomains) :
      e \in Emails \cup {Undefined}, i \in CallerIds }

KeypairOptions ==
  { Options(e, [accountId |-> a, id |-> Undefined], Undefined, NoDomains) :
      e \in Emails \cup {Undefined}, a \in {Undefined, "_account_id"} }

KeypairLookups ==
  { Options(e, [accountId |-> a, id |-> Undefined], Undefined, NoDomains) :
      e \in Emails \cup {Undefined}, a \in LookupAccountIds }

LookupOptions ==
  KeypairLookups
  \cup { Options(e, [accountId |-> a, id |-> Undefined], Undefined,
                 DomainList(<<"example.com">>)) :
           e \in {Undefined, "goodguy@gmail.com"}, a \in {Undefined, "_account_id"} }

\* the two certificates of the test suite: one keyed by email, one by accountId
CertificateOptions ==
  { Options("goodguy@gmail.com", NoIdent, Undefined,
            DomainList(<<"example.com", "www.example.com">>)),
    Options(Undefined, [accountId |-> DerivedAccountId("PUBKEY.PEM"), id |-> Undefined],
            Undefined, DomainList(<<"foo.com">>)) }

\* the certificate keypair generated for a certificate
CertificateKeypair(o) ==
  CHOOSE k \in Keypairs : (k.publicKeyPem = "PUBKEY.PEM") <=> Truthy(o.email)

CertificateLookups ==
  { Options(Undefined, NoIdent, Undefined, d) :
      d \in {NoDomains} \cup {DomainList(<<x>>) : x \in Domains} }
  \cup { Options("goodguy@gmail.com", NoIdent, Undefined, NoDomains),
         Options(Undefined, [accountId |-> DerivedAccountId("PUBKEY.PEM"), id |-> Undefined],
                 Undefined, NoDomains),
         Options("goodguy@gmail.com", NoIdent, Undefined, DomainList(<<"foo.com">>)) }

Next ==
  \/ \E o \in KeypairOptions, k \in Keypairs : redisSetAccountKeypair(o, k)
  \/ \E o \in KeypairLookups : redisCheckAccountKeypair(o)
  \/ \E o \in AccountOptions, reg \in Registrations : redisSetAccount(o, reg)
  \/ \E o \in LookupOptions : redisCheckAccount(o)
  \/ \E o \in CertificateOptions : redisSetCertificateKeypair(o, CertificateKeypair(o))
  \/ \E o \in CertificateLookups : redisCheckCertificateKeypair(o)
  \/ \E o \in CertificateOptions, p \in Pems : redisSetCertificate(o, p)
  \/ \E o \in CertificateLookups : redisCheckCertificate(o)
  \/ \E r \in pending : SetReplyOk(r)
  \/ \E r \in pending : SetReplyError(r)
  \/ \E r \in pending : SetReplyNull(r)
  \/ \E r \in pending : GetReplyOk(r)
  \/ \E r \in pending : GetReplyError(r)

Spec == Init /\ [][Next]_vars

(***************************************************************************)
(* A caller that registers one account, under one email and the accountId  *)
(* an earlier accounts.set returned, and sets it again when the call        *)
(* failed: the same operations, with the inputs of that caller only.        *)
(***************************************************************************)
RetryOptions ==
  Options("goodguy@gmail.com",
          [accountId |-> DerivedAccountId("PUBKEY.PEM"), id |-> Undefined],
          Undefined, NoDomains)

RetryRegistrations == {reg \in Registrations : reg.keypair.publicKeyPem = "PUBKEY.PEM"}

RetryInit == Created([calls |-> RetryCalls, sets |-> RetrySetCalls])

RetryNext ==
  \/ \E reg \in RetryRegistrations : redisSetAccount(RetryOptions, reg)
  \/ redisCheckAccount(RetryOptions)
  \/ \E r \in pending : SetReplyOk(r)
  \/ \E r \in pending : SetReplyError(r)
  \/ \E r \in pending : GetReplyOk(r)
  \/ \E r \in pending : GetReplyError(r)

RetrySpec == RetryInit /\ [][RetryNext]_vars

(***************************************************************************)
(* The plugin created on a database in which another client of that        *)
(* database, or an interrupted write, left values that are no JSON text     *)
(* under keys the lookups of the accounts read.                             *)
(***************************************************************************)
CorruptStore ==
  [k \in {emailAccountIndex("goodguy@gmail.com"),
          emailKeypairIndex("goodguy@gmail.com"), "_account_id"} |-> NotJson]

CorruptInit == CreatedOn(CorruptStore, [calls |-> MaxCalls, sets |-> MaxSetCalls])

CorruptNext ==
  \/ \E o \in KeypairLookups : redisCheckAccountKeypair(o)
  \/ \E o \in LookupOptions : redisCheckAccount(o)
  \/ \E r \in pending : GetReplyOk(r)
  \/ \E r \in pending : GetReplyError(r)

CorruptSpec == CorruptInit /\ [][CorruptNext]_vars

(***************************************************************************)
(* A caller that passes to accounts.check, as accountId, the name of a key  *)
(* of the database: accountId is any string of the caller, and the keys     *)
(* are computable from the emails and accountIds alone.                     *)
(***************************************************************************)
StoreKeys ==
  UNION { {emailKeypairIndex(e), emailAccountIndex(e)} : e \in Emails }
  \cup {accountKeypairIndex("_account_id"), accountIndex("_account_id")}

NamespaceLookups ==
  { Options(Undefined, [accountId |-> k, id |-> Undefined], Undefined, NoDomains) :
      k \in StoreKeys }

NamespaceInit == Created([calls |-> MaxCalls, sets |-> MaxSetCalls])

NamespaceNext ==
  \/ \E o \in KeypairOptions, k \in Keypairs : redisSetAccountKeypair(o, k)
  \/ \E o \in AccountOptions, reg \in Registrations : redisSetAccount(o, reg)
  \/ \E o \in NamespaceLookups : redisCheckAccount(o)
  \/ \E r \in pending : SetReplyOk(r)
  \/ \E r \in pending : SetReplyError(r)
  \/ \E r \in pending : GetReplyOk(r)
  \/ \E r \in pending : GetReplyError(r)

NamespaceSpec == NamespaceInit /\ [][NamespaceNext]_vars

(***************************************************************************)
(* Properties                                                              *)
(***************************************************************************)
\* the call in progress has called back without error
Returned(op) == call.op = op /\ cbCount > 0 /\ cbErr = "none"

\* the lookup of the call in progress is by email e / by accountId a
ByEmail == Truthy(call.options.email)
ByAccountId == ~Truthy(call.options.email) /\ Truthy(call.options.accountId)

PrivateKeyOf(o) ==
  IF "keypair" \in DOMAIN o THEN Prop(o["keypair"], "privateKeyPem") ELSE Undefined

\* the account r has the id, email, agreeTos, receipt and private key of a
SameAccount(r, a) ==
  /\ \A f \in {"id", "email", "agreeTos", "receipt"} : Prop(r, f) = Prop(a, f)
  /\ PrivateKeyOf(r) = PrivateKeyOf(a)

\* C1: after accounts.set succeeded with opts.email = e and no other write
\* for e happened since, accounts.check({email: e}) returns a non-null
\* account with the id, email, agreeTos, receipt and keypair.privateKeyPem of
\* the account that set returned.
C1_CheckByEmailReturnsSetAccount ==
  (Returned("accounts.check") /\ ByEmail
     /\ acctByEmail[call.options.email].kind = "obj")
  => /\ cbRes.kind = "obj"
     /\ SameAccount(cbRes.val, acctByEmail[call.options.email].val)

C1_Witness ==
  /\ Returned("accounts.check") /\ ByEmail
  /\ acctByEmail[call.options.email].kind = "obj"
  /\ cbRes.kind = "obj"
  /\ Prop(cbRes.val, "agreeTos") = "TOS_URL"
  /\ PrivateKeyOf(cbRes.val) = "PEM2"

\* the call in progress directly follows the last successful accounts.set
FollowsLastSet == lastSet.n > 0 /\ ncalls = lastSet.n + 1 /\ call.quiet

\* C2: after accounts.set succeeded and returned an account with id i,
\* accounts.check({accountId: i}) returns that same account.
C2_CheckByAccountIdReturnsSetAccount ==
  (Returned("accounts.check") /\ ByAccountId /\ FollowsLastSet
     /\ call.options.accountId = lastSet.account["id"])
  => /\ cbRes.kind = "obj"
     /\ SameAccount(cbRes.val, lastSet.account)

\* C3: accounts.setKeypair({email: e}, k) followed by
\* accounts.checkKeypair({email: e}) returns a non-null keypair with the
\* publicKeyPem and privateKeyPem of k.
C3_CheckKeypairByEmailReturnsKeypair ==
  (Returned("accounts.checkKeypair") /\ ByEmail
     /\ kpByEmail[call.options.email].kind = "obj")
  => /\ cbRes.kind = "obj"
     /\ \A f \in {"publicKeyPem", "privateKeyPem"} :
          Prop(cbRes.val, f) = Prop(kpByEmail[call.options.email].val, f)

C3_Witness ==
  /\ Returned("accounts.checkKeypair") /\ ByEmail
  /\ kpByEmail[call.options.email].kind = "obj"
  /\ cbRes.kind = "obj"
  /\ Prop(cbRes.val, "privateKeyPem") = "PRIVKEY.PEM"

\* the first domain of the lookup of the call in progress
FirstDomain == call.options.domains.list[1]

SameBundle(r, b) ==
  \A f \in {"cert", "privkey", "chain"} : Prop(r, f) = Prop(b, f)

\* C4: after certificates.set succeeded with opts.domains = [d1, d2, ...],
\* certificates.check({domains: [d]}) returns the stored bundle (same cert,
\* privkey and chain) for every d of the list.
C4_CheckByDomainReturnsStoredBundle ==
  (call.op = "certificates.check" /\ cbCount > 0 /\ call.options.domains.given
     /\ certByDomain[FirstDomain].kind = "obj")
  => /\ cbErr = "none"
     /\ cbRes.kind = "obj"
     /\ SameBundle(cbRes.val, certByDomain[FirstDomain].val)

\* C5: with two certificates stored for disjoint domain lists,
\* certificates.check by a domain of the one never returns the bundle of the
\* other: for a domain d with a stored bundle and a domain x holding another
\* bundle, check by d returns the private key stored for d and not that of x.
C5_CertificatesDoNotMix ==
  \A x \in Domains :
    (call.op = "certificates.check" /\ cbCount > 0 /\ call.options.domains.given
       /\ certByDomain[FirstDomain].kind = "obj"
       /\ certByDomain[x].kind = "obj"
       /\ certByDomain[x] # certByDomain[FirstDomain])
    => /\ cbRes.kind = "obj"
       /\ Prop(cbRes.val, "privkey") = certByDomain[FirstDomain].val.privkey
       /\ Prop(cbRes.val, "privkey") # certByDomain[x].val.privkey

\* C6 as stated: the id accounts.set returns never equals the id or the
\* accountId the caller supplied in opts; equal public keys give equal ids
\* and different public keys different ids.
C6_IdNeverTheCallerSupplied ==
  /\ Returned("accounts.set") =>
       cbRes.val["id"] \notin {call.options.accountId, call.options.id}
  /\ \A p \in setIds, q \in setIds : (p[1] = q[1]) <=> (p[2] = q[2])

\* C6 as amended: the id accounts.set returns is 'account-' + sha256 of
\* reg.keypair.publicKeyPem whatever id or accountId the caller supplied (it
\* equals a supplied value only when the caller supplied that very derived
\* id); equal public keys give equal ids and different public keys
\* different ids.
C6_IdDerivedFromPublicKey ==
  /\ Returned("accounts.set") =>
       /\ cbRes.val["id"] = DerivedAccountId(call.arg.keypair.publicKeyPem)
       /\ \A s \in {call.options.accountId, call.options.id} :
            s # DerivedAccountId(call.arg.keypair.publicKeyPem) => cbRes.val["id"] # s
  /\ \A p \in setIds, q \in setIds : (p[1] = q[1]) <=> (p[2] = q[2])

C6_Witness ==
  /\ Returned("accounts.set")
  /\ call.options.accountId = "_account_id"
  /\ call.options.id = "__account_id"
  /\ Cardinality(setIds) = 2

\* the last two successful accounts.set calls followed each other, the call
\* in progress is the second, and both had email e, the same accountId
\* option and the same public key
SetTwice ==
  /\ Returned("accounts.set") /\ lastSet.n = ncalls
  /\ prevSet.n > 0 /\ lastSet.n = prevSet.n + 1 /\ lastSet.quiet
  /\ Truthy(lastSet.options.email)
  /\ lastSet.options.email = prevSet.options.email
  /\ lastSet.options.accountId = prevSet.options.accountId
  /\ lastSet.reg.keypair.publicKeyPem = prevSet.reg.keypair.publicKeyPem

\* C7: accounts.set({email: e}, reg) called again with the same keypair
\* returns the same id, creates no key that the first call had not
\* created, and leaves every key written for the account holding the record
\* of the second call.
C7_SetIsIdempotent ==
  SetTwice =>
    /\ lastSet.account["id"] = prevSet.account["id"]
    /\ lastSet.written \subseteq prevSet.keys
    /\ DOMAIN redis = prevSet.keys
    /\ \A k \in lastSet.written \cup prevSet.written :
         k \in DOMAIN redis /\ redis[k] = JSONstringify(lastSet.account)

C7_Witness ==
  /\ SetTwice
  /\ lastSet.written # {}
  /\ Prop(prevSet.account, "agreeTos") = JsTrue
  /\ Prop(lastSet.account, "agreeTos") = Undefined
  /\ Prop(lastSet.account, "rnd") = "RND"

\* the properties of reg that accounts.set does not assign itself
ExtraProps(reg) == DOMAIN reg \ {"id", "accountId", "email", "agreeTos"}

HasProps(o, reg) ==
  \A f \in ExtraProps(reg) :
    /\ f \in DOMAIN o
    /\ o[f] = IF f \in ObjectProps THEN StringifyFlat(reg[f]) ELSE reg[f]

\* C8: every extra property of reg is present with the same value in the
\* account accounts.set returns and in the account a subsequent
\* accounts.check for that account (by its email or by its id) returns.
C8_ExtraPropertiesAreReturned ==
  /\ Returned("accounts.set") => HasProps(cbRes.val, call.arg)
  /\ (Returned("accounts.check") /\ FollowsLastSet
        /\ \/ ByEmail /\ call.options.email = lastSet.options.email
           \/ ByAccountId /\ call.options.accountId = lastSet.account["id"])
     => cbRes.kind = "obj" /\ HasProps(cbRes.val, lastSet.reg)

\* the lookup field of the call in progress was given to no set operation
NeverStored ==
  \/ /\ call.op = "accounts.checkKeypair"
     /\ \/ ByEmail /\ call.options.email \notin used.kpEmail
        \/ ByAccountId /\ call.options.accountId \notin used.kpAccountId
  \/ /\ call.op = "accounts.check"
     /\ \/ ByEmail /\ call.options.email \notin used.acctEmail
        \/ ByAccountId /\ call.options.accountId \notin used.acctId

C10_NeverStoredCertificateGivesNull ==
  /\ (call.op = "certificates.check" /\ cbCount > 0
        /\ \/ call.options.domains.given /\ FirstDomain \notin used.certDomain
           \/ ~call.options.domains.given /\ ByEmail
                /\ call.options.email \notin used.certEmail
           \/ ~call.options.domains.given /\ ByAccountId
                /\ call.options.accountId \notin used.certAccountId)
     => cbErr = "none" /\ cbRes = NullV
  /\ (call.op = "certificates.checkKeypair" /\ cbCount > 0
        /\ call.options.domains.given /\ FirstDomain \notin used.kpDomain)
     => cbErr = "none" /\ cbRes = NullV

\* the call in progress is a lookup of the accounts given no lookup field
NoLookupField ==
  /\ ~Truthy(call.options.email) /\ ~Truthy(call.options.accountId)
  /\ \/ call.op = "accounts.checkKeypair"
     \/ call.op = "accounts.check" /\ ~call.options.domains.given

\* C11: accounts.check called with none of email, accountId and domains,
\* and accounts.checkKeypair called with neither email nor accountId,
\* complete (once) with an error and no result, and issue no backend read.
C11_NoLookupFieldIsAnError ==
  NoLookupField =>
    /\ cbCount = 1
    /\ cbErr \notin {"none", "BackendIO"}
    /\ cbRes = NoRes
    /\ \A r \in pending : r.cmd # "get"

C11_Witness ==
  /\ NoLookupField /\ call.op = "accounts.check"
  /\ cbCount = 1 /\ cbErr = "InvalidArgument"
  /\ DOMAIN redis # {}

\* C12: certificates.check called with none of domains, email and accountId
\* fails with an InvalidArgument error, and certificates.checkKeypair called
\* with domains empty or absent fails with an InvalidArgument error; neither
\* returns a bundle or keypair in that case.
C12_CertificateLookupWithoutFieldFails ==
  /\ (call.op = "certificates.check" /\ cbCount > 0
        /\ ~call.options.domains.given
        /\ ~Truthy(call.options.email) /\ ~Truthy(call.options.accountId))
     => cbErr = "InvalidArgument" /\ cbRes = NoRes
  /\ (call.op = "certificates.checkKeypair" /\ cbCount > 0
        /\ (~call.options.domains.given \/ call.options.domains.list = <<>>))
     => cbErr = "InvalidArgument" /\ cbRes = NoRes

\* C13: after certificates.setKeypair({domains: D}, k) succeeded,
\* certificates.checkKeypair({domains: [d, ...]}) returns a keypair equal to
\* k for every d of D given as the first domain.
C13_CheckKeypairByDomainReturnsKeypair ==
  (call.op = "certificates.checkKeypair" /\ cbCount > 0
     /\ call.options.domains.given
     /\ keypairByDomain[FirstDomain].kind = "obj")
  => /\ cbErr = "none"
     /\ cbRes.kind = "obj"
     /\ \A f \in {"publicKeyPem", "privateKeyPem"} :
          Prop(cbRes.val, f) = Prop(keypairByDomain[FirstDomain].val, f)

\* C14: after a successful certificates.set the call has written the
\* certificate record and its index entries, and every key it wrote carries
\* an expiry equal to certExpiry (8,640,000 seconds when none is
\* configured), the same for the record and the indexes.
C14_CertificateEntriesExpire ==
  Returned("certificates.set") =>
    /\ written # {}
    /\ \A k \in written : KeyExpiry(redis, k) = DefaultCertExpiry

\* the operations that fan out backend writes
SetOps == {"accounts.set", "accounts.setKeypair", "certificates.set"}

\* the text a set operation of the accounts writes
CallText(c) == JSONstringify(CallValue(c))

\* a write of the set operation in progress has failed
SetFailed == call.op \in SetOps /\ \E i \in 1..2 : results[i] = Failed

\* C15: in a set operation that fans out several backend writes, if any one
\* of the writes fails the callback receives an error (once) and never a
\* success result, and the writes of the operation that succeeded stay in
\* the store: no step takes a key out of the store, and the keys the
\* operation wrote hold what it wrote.
C15_FailedWriteFailsTheCallWithoutRollback ==
  /\ [](SetFailed =>
          /\ cbCount = 1 /\ cbErr = "BackendIO" /\ cbRes = NoRes
          /\ \A k \in written : k \in DOMAIN redis /\ redis[k] = CallText(call))
  /\ [][DOMAIN redis \subseteq DOMAIN redis']_vars

C15_Witness ==
  /\ SetFailed /\ call.op = "accounts.set"
  /\ written # {} /\ pending = {}
  /\ cbCount = 1 /\ cbErr = "BackendIO"

\* C16: when the backend read issued by accounts.check or
\* accounts.checkKeypair fails, the callback receives exactly that backend
\* error and no record, once, and the plugin issues no further backend
\* request for the call and leaves the store as it is.
C16_ReadErrorIsReported ==
  [][\A r \in pending :
       (r.cmd = "get" /\ GetReplyError(r))
       => /\ cbCount' = 1 /\ cbErr' = "BackendIO" /\ cbRes' = NoRes
          /\ pending' = pending \ {r}
          /\ \A q \in pending' : q.cmd # "get"
          /\ redis' = redis]_vars

C16_Witness ==
  /\ call.op = "accounts.check" /\ ByEmail
  /\ emailAccountIndex(call.options.email) \in DOMAIN redis
  /\ pending = {}
  /\ cbCount = 1 /\ cbErr = "BackendIO" /\ cbRes = NoRes

\* C17: every call of a public operation eventually invokes its callback
\* exactly once, on every path (all sub-writes succeed, one fails, both
\* fail, a sub-write or read is acknowledged with a null result, no lookup
\* field is supplied): the callback never runs twice, and a call whose
\* backend requests have all been answered has invoked it.
C17_EveryCallCallsBackOnce ==
  /\ cbCount <= 1
  /\ (call.op # "none" /\ \A r \in pending : r.orphan) => cbCount = 1

\* C18: the callback of a set operation that fans out several backend
\* writes is invoked only after every write it dispatched has settled, also
\* when one of them fails: once the callback has run no write is in flight
\* (calls are issued one after the other, so a write in flight then belongs
\* to an operation whose callback has run).
C18_CallbackAfterAllWritesSettled ==
  (call.op \in SetOps /\ cbCount > 0) => \A r \in pending : r.cmd # "set"

\* the keys a set operation of the accounts writes
CallKeys(c) ==
  (IF ~Truthy(c.options.email) THEN {}
   ELSE IF c.op = "accounts.set" THEN {emailAccountIndex(c.options.email)}
   ELSE {emailKeypairIndex(c.options.email)})
  \cup (IF ~Truthy(c.options.accountId) THEN {}
        ELSE IF c.op = "accounts.set" THEN {accountIndex(c.options.accountId)}
        ELSE {accountKeypairIndex(c.options.accountId)})

\* the store after one successful call that writes text under keys
StoreAfter(db, keys, text) ==
  [k \in DOMAIN db \cup keys |-> IF k \in keys THEN text ELSE db[k]]

\* the call numbered n retried, with its arguments, the set operation that
\* failed after some of its writes had succeeded
RetryOfLastFail(n, op, options, arg) ==
  /\ lastFail.n > 0 /\ n = lastFail.n + 1
  /\ lastFail.written # {}
  /\ op = lastFail.op /\ options = lastFail.options /\ arg = lastFail.arg

C20_EmailLookupReturnsTheRecordOfItsId ==
  (Returned("accounts.check") /\ ByEmail /\ cbRes.kind = "obj")
  => deserializeJson("none", RedisGet(redis, cbRes.val["id"])).res = cbRes

\* the keys accounts.set may write for the account a: the record under its
\* id and, when it has an email, the index entry of that email
AccountKeys(a) ==
  {a["id"]} \cup (IF Truthy(a["email"]) THEN {emailAccountIndex(a["email"])} ELSE {})

\* C21: accounts.set(opts, reg) writes only the account record under the id
\* derived from reg.keypair.publicKeyPem and, when an email is present, the
\* email-to-account index entry; it writes no key derived from
\* opts.accountId or opts.id: every key a successful call wrote is one of
\* those two, so that calls differing only in opts.accountId or opts.id
\* leave the same store.
C21_SetWritesOnlyRecordAndEmailIndex ==
  (Returned("accounts.set") /\ lastSet.n = ncalls) =>
    lastSet.written \subseteq AccountKeys(lastSet.account)

\* the key of a keypair record: 'keypair-' + sha256(keypair.publicKeyPem)
KeypairId(keypair) == "keypair-" \o Sha256Hex(keypair.publicKeyPem)

\* C22: every successful accounts.setKeypair(opts, keypair) writes the
\* keypair record under the keypair id derived from keypair.publicKeyPem,
\* whatever opts contains (also neither email nor accountId): once the
\* callback has reported success the record is in the store, retrievable
\* from the public key.
C22_SetKeypairWritesTheKeypairRecord ==
  Returned("accounts.setKeypair") =>
    /\ KeypairId(call.arg) \in DOMAIN redis
    /\ JSONparse(redis[KeypairId(call.arg)]) = StringifyFlat(call.arg)

\* C23: accounts.set creates the email-to-account index whenever an email
\* is present in opts.email or in the registration's own email field: after
\* accounts.set({}, reg) with reg.email = e and no opts.email, the account
\* keeps email e and accounts.check({email: e}) returns it.
C23_OwnEmailIsKeptAndIndexed ==
  /\ (Returned("accounts.set") /\ ~Truthy(call.options.email)
        /\ Truthy(Prop(call.arg, "email")))
     => Prop(cbRes.val, "email") = Prop(call.arg, "email")
  /\ (Returned("accounts.check") /\ ByEmail /\ FollowsLastSet
        /\ ~Truthy(lastSet.options.email)
        /\ Prop(lastSet.reg, "email") = call.options.email)
     => /\ cbRes.kind = "obj"
        /\ Prop(cbRes.val, "id") = lastSet.account["id"]
        /\ Prop(cbRes.val, "email") = call.options.email

\* the key a lookup of the accounts is to read: by email when an email is
\* given, else by accountId, else (accounts.check) by domains
LookupKey(c) ==
  IF Truthy(c.options.email)
  THEN IF c.op = "accounts.check" THEN emailAccountIndex(c.options.email)
       ELSE emailKeypairIndex(c.options.email)
  ELSE IF Truthy(c.options.accountId)
       THEN IF c.op = "accounts.check" THEN c.options.accountId
            ELSE accountKeypairIndex(c.options.accountId)
       ELSE c.options.domains.list[1]

\* the call in progress is a lookup of the accounts given a lookup field
AccountLookup ==
  call.op \in {"accounts.check", "accounts.checkKeypair"} /\ ~NoLookupField

\* C24: when the value stored under the key that accounts.check or
\* accounts.checkKeypair reads is not a valid serialized record, the
\* decoding failure is reported to the caller as an error through the
\* callback: once the read has been answered the callback has run, once,
\* with an error and no record.
C24_DecodingFailureIsReported ==
  (AccountLookup /\ pending = {}
     /\ LookupKey(call) \in DOMAIN redis /\ ~IsJson(redis[LookupKey(call)]))
  => cbCount = 1 /\ cbErr # "none" /\ cbRes = NoRes

\* the reads in flight
Reads == {r \in pending : r.cmd = "get"}

\* C25: account lookups give email priority over accountId over domains:
\* accounts.check and accounts.checkKeypair issue one read, of the key of
\* the email when an email is given, of the key of the accountId only when
\* no email is given, and (accounts.check) of the domains only when neither
\* is given, and the result they return is what that key holds.
C25_EmailThenAccountIdThenDomains ==
  /\ [](AccountLookup =>
          Reads = IF cbCount = 0 THEN {GetRequest(LookupKey(call))} ELSE {})
  /\ [][(AccountLookup /\ cbCount = 0 /\ cbCount' = 1 /\ cbErr' = "none")
         => cbRes' = IF LookupKey(call) \in DOMAIN redis
                     THEN Obj(JSONparse(redis[LookupKey(call)]))
                     ELSE NullV]_vars

C25_Witness ==
  /\ Returned("accounts.checkKeypair")
  /\ Truthy(call.options.email) /\ Truthy(call.options.accountId)
  /\ emailKeypairIndex(call.options.email) \in DOMAIN redis
  /\ accountKeypairIndex(call.options.accountId) \in DOMAIN redis
  /\ redis[emailKeypairIndex(call.options.email)]
       # redis[accountKeypairIndex(call.options.accountId)]
  /\ cbRes = Obj(JSONparse(redis[emailKeypairIndex(call.options.email)]))

\* the bundle last given to certificates.set with the lookup field v (email
\* or accountId): each is used with one list of domains, whose first domain
\* holds that bundle
CertOf(field, v) ==
  LET os == {o \in CertificateOptions : o[field] = v}
  IN IF os = {} THEN NoRes
     ELSE certByDomain[(CHOOSE o \in os : TRUE).domains.list[1]]

\* the bundle the lookup of the call in progress is to return: by the first
\* domain, otherwise by email, otherwise by accountId
CertByPriority ==
  IF call.options.domains.given THEN certByDomain[FirstDomain]
  ELSE IF Truthy(call.options.email) THEN CertOf("email", call.options.email)
  ELSE IF Truthy(call.options.accountId) THEN CertOf("accountId", call.options.accountId)
  ELSE NoRes

\* C26: certificates.check resolves in strict priority order: by the first
\* domain when domains is supplied, otherwise by email, otherwise by
\* accountId; given domains together with email or accountId, the bundle
\* returned is the one indexed under the first domain.
C26_DomainThenEmailThenAccountId ==
  (call.op = "certificates.check" /\ cbCount > 0 /\ CertByPriority.kind = "obj")
  => /\ cbErr = "none"
     /\ cbRes.kind = "obj"
     /\ SameBundle(cbRes.val, CertByPriority.val)

\* v is an account record of accounts.set: it carries the keypair of its
\* registration and the id that a call of accounts.set derived
AccountRecord(v) ==
  /\ Prop(v, "id") \in used.acctId
  /\ Prop(v, "accountId") = Prop(v, "id")
  /\ "keypair" \in DOMAIN v

\* C27: a non-null, non-error result of accounts.check is an account record
\* that some accounts.set call wrote: check by accountId never returns a
\* keypair record, an index entry or any other value stored under a key of
\* another namespace.
C27_CheckReturnsOnlyAccountRecords ==
  (Returned("accounts.check") /\ cbRes.kind = "obj") => AccountRecord(cbRes.val)

\* the four check operations
CheckOps ==
  {"accounts.checkKeypair", "accounts.check",
   "certificates.checkKeypair", "certificates.check"}

\* a step of a check operation: the call itself, or the answer to its read
CheckStep ==
  \/ call'.op \in CheckOps /\ ncalls' = ncalls + 1
  \/ \E r \in Reads : r \notin pending'

\* C28: the four check operations are read-only: whatever their arguments
\* and outcome (record, null or error), every step of a check leaves the
\* keys, the values and the expiries of the store as they were.
C28_ChecksAreReadOnly ==
  [][CheckStep =>
       /\ redis' = redis
       /\ \A k \in DOMAIN redis : KeyExpiry(redis', k) = KeyExpiry(redis, k)]_vars

C28_Witness ==
  /\ Returned("accounts.check") /\ ByEmail
  /\ cbRes.kind = "obj"
  /\ emailAccountIndex(call.options.email) \in DOMAIN redis

====
